---- MODULE Spec2Model ----
(***************************************************************************)
(* A model of pdf_crack.py: the brute-force search check_passwords, the    *)
(* alphabet normaliser as_list, the size computation np.product over       *)
(* int64, the itertools.product enumeration and the password oracle        *)
(* check_password.                                                         *)
(***************************************************************************)
EXTENDS Integers, Sequences, FiniteSets, TLC

VARIABLES
    raw,             \* the caller's argument `combination` (list of alphabet specs)
    accept,          \* the passwords that open the document (pikepdf's answer)
    log_freq,        \* the argument log_freq
    pc,              \* position in check_passwords
    combination,     \* the local `combination` after line 56
    num_passwords,   \* the local num_passwords (numpy scalar)
    passwords,       \* the itertools.product iterator
    success,         \* the local success: False or a password
    count,           \* the local count
    start,           \* the local start
    clock,           \* the value time.perf_counter() last returned, in clock ticks
    password,        \* the local password (latest candidate joined)
    out,             \* what has been printed, one entry per print call
    exc,             \* the exception that left check_passwords, if any
    calls,           \* history: the calls made to check_password, in order
    cancelRequested, \* the caller has asked for the search to be cancelled
    number,          \* the argument n of one call of human_readable_numbers
    decimals,        \* the argument decimals of that call
    rendered         \* the string that call returned

vars == <<raw, accept, log_freq, pc, combination, num_passwords, passwords,
          success, count, start, clock, password, out, exc, calls,
          cancelRequested, number, decimals, rendered>>

----------------------------------------------------------------------------
(* Bounds of the model *)

MaxPositions == 2
MaxLogFreq == 3
MaxProdPositions == 14
MaxClock == 2

----------------------------------------------------------------------------
(* Module constants, lines 10-12 *)

ALPHABET_UPPERCASE ==
    <<"A","B","C","D","E","F","G","H","I","J","K","L","M",
      "N","O","P","Q","R","S","T","U","V","W","X","Y","Z">>

ALPHABET_LOWERCASE ==
    <<"a","b","c","d","e","f","g","h","i","j","k","l","m",
      "n","o","p","q","r","s","t","u","v","w","x","y","z">>

NUMBER == <<"0","1","2","3","4","5","6","7","8","9">>

----------------------------------------------------------------------------
(* Alphabet specs as the caller passes them: a Python value with its type. *)
(* For a collection, items is its iteration order; for anything else,      *)
(* items holds the one value itself.                                       *)

Collection(type, items) == [type |-> type, items |-> items]

Single(symbol) == [type |-> "str", items |-> <<symbol>>]

CollectionTypes == {"list", "tuple", "set", "ndarray"}

RECURSIVE Dedup(_)
Dedup(items) ==
    IF items = <<>>
    THEN <<>>
    ELSE LET d == Dedup(SubSeq(items, 1, Len(items) - 1))
             x == items[Len(items)]
         IN  IF \E k \in 1..Len(d) : d[k] = x THEN d ELSE Append(d, x)

\* a normaliser that drops repeated symbols
as_list_Dedup(l) ==
    IF l.type \in CollectionTypes
    THEN Dedup(l.items)
    ELSE <<l.items[1]>>

\* a normaliser that iterates over whatever it is given: a str falls apart
\* into its characters
as_list_Iterate(l) ==
    IF l.type \in CollectionTypes
    THEN l.items
    ELSE IF l.items[1] = "ab" THEN <<"a", "b">> ELSE <<l.items[1]>>

as_list(l) ==
    IF l.type \in CollectionTypes
    THEN l.items
    ELSE <<l.items[1]>>

----------------------------------------------------------------------------
(* numpy int64 arithmetic, line 60.  An int64 is held as its 8 bytes in    *)
(* two's complement, least significant first, so that the wraparound of    *)
(* np.product is what the hardware does: the bytes above the eighth are    *)
(* dropped.                                                                *)

Int64Bytes == 8

RECURSIVE BytesOf(_, _)
\* the low k bytes of the natural n, least significant first
BytesOf(n, k) ==
    IF k = 0 THEN <<>> ELSE <<n % 256>> \o BytesOf(n \div 256, k - 1)

Int64(n) == BytesOf(n, Int64Bytes)

RECURSIVE MulCarry(_, _, _)
\* bytes * m + carry, kept to Len(bytes) bytes: the carry out of the last is lost
MulCarry(bytes, m, carry) ==
    IF bytes = <<>>
    THEN <<>>
    ELSE LET t == bytes[1] * m + carry
         IN  <<t % 256>> \o MulCarry(Tail(bytes), m, t \div 256)

Int64Mul(a, m) == MulCarry(a, m, 0)

RECURSIVE Int64Product(_)
\* the reduction np.multiply.reduce over an int64 array, starting from 1
Int64Product(lens) ==
    IF lens = <<>>
    THEN Int64(1)
    ELSE Int64Mul(Int64Product(SubSeq(lens, 1, Len(lens) - 1)), lens[Len(lens)])

RECURSIVE Int64Sum(_)
Int64Sum(lens) ==
    IF lens = <<>> THEN 0 ELSE lens[1] + Int64Sum(Tail(lens))

\* the lengths added instead of multiplied
np_product_Sum(lens) ==
    IF lens = <<>>
    THEN [dtype |-> "float64", bytes |-> Int64(0)]
    ELSE [dtype |-> "int64", bytes |-> Int64(Int64Sum(lens))]

\* np.product of a list: an empty list is a float64 array and gives 1.0,
\* a list of Python ints is an int64 array and gives an int64
np_product(lens) ==
    IF lens = <<>>
    THEN [dtype |-> "float64", bytes |-> Int64(1)]
    ELSE [dtype |-> "int64", bytes |-> Int64Product(lens)]

----------------------------------------------------------------------------
(* itertools.product, line 61: the iterator keeps one index per pool; the  *)
(* first next() yields the first element of every pool, every later one    *)
(* advances the rightmost index that can advance and resets those to its   *)
(* right.                                                                  *)

product(pools) == [pools |-> pools, indices |-> <<>>, phase |-> "fresh"]

\* an iterator that yields the tuple it yielded before
Advance_Stuck(pools, indices, i) ==
    [pools |-> pools, indices |-> indices, phase |-> "running"]

RECURSIVE Advance(_, _, _)
Advance(pools, indices, i) ==
    IF i = 0
    THEN [pools |-> pools, indices |-> indices, phase |-> "stopped"]
    ELSE IF indices[i] < Len(pools[i])
         THEN [pools |-> pools,
               indices |-> [indices EXCEPT ![i] = @ + 1],
               phase |-> "running"]
         ELSE Advance(pools, [indices EXCEPT ![i] = 1], i - 1)

RECURSIVE AdvanceLeft(_, _, _)
AdvanceLeft(pools, indices, i) ==
    IF i > Len(pools)
    THEN [pools |-> pools, indices |-> indices, phase |-> "stopped"]
    ELSE IF indices[i] < Len(pools[i])
         THEN [pools |-> pools,
               indices |-> [indices EXCEPT ![i] = @ + 1],
               phase |-> "running"]
         ELSE AdvanceLeft(pools, [indices EXCEPT ![i] = 1], i + 1)

\* an enumeration whose first position varies fastest
product_next_LeftFastest(it) ==
    CASE it.phase = "fresh" ->
            IF \E i \in 1..Len(it.pools) : it.pools[i] = <<>>
            THEN [it EXCEPT !.phase = "stopped"]
            ELSE [it EXCEPT !.indices = [i \in 1..Len(it.pools) |-> 1],
                            !.phase = "running"]
      [] it.phase = "running" -> AdvanceLeft(it.pools, it.indices, 1)
      [] OTHER -> it

\* the iterator after one call of next(); phase "stopped" is StopIteration
product_next(it) ==
    CASE it.phase = "fresh" ->
            IF \E i \in 1..Len(it.pools) : it.pools[i] = <<>>
            THEN [it EXCEPT !.phase = "stopped"]
            ELSE [it EXCEPT !.indices = [i \in 1..Len(it.pools) |-> 1],
                            !.phase = "running"]
      [] it.phase = "running" -> Advance(it.pools, it.indices, Len(it.pools))
      [] OTHER -> it

\* the tuple the iterator has just yielded
product_value(it) == [i \in 1..Len(it.pools) |-> it.pools[i][it.indices[i]]]

\* Python objects that are not str.  A symbol of the model is the text of a
\* str; an object of another type is written as the text of its constructor,
\* which no str symbol of the model has.
NonStrObjects == { "int(1)" }

\* ''.join(t) accepts t: every item is a str; otherwise it raises TypeError
Joinable(t) == \A i \in 1..Len(t) : t[i] \notin NonStrObjects

RECURSIVE join(_)
\* ''.join(t), line 67
join(t) == IF t = <<>> THEN "" ELSE t[1] \o join(Tail(t))

----------------------------------------------------------------------------
(* Python values of the local `success`, line 62: False or a str *)

PyFalse == [type |-> "bool", b |-> FALSE, s |-> ""]

PyStr(s) == [type |-> "str", b |-> FALSE, s |-> s]

\* the truth value Python gives a bool or a str in `... if success else ...`
Truthy(v) == IF v.type = "bool" THEN v.b ELSE v.s # ""

----------------------------------------------------------------------------
(* The oracle, lines 34-43: pikepdf opens the document with the password   *)
(* (True), or raises PasswordError (False); any other exception is not     *)
(* caught.                                                                 *)

check_password(pdf_passwords, pw) == pw \in pdf_passwords

NoException == [type |-> "none", args |-> <<>>]

\* an exception pikepdf.open raised other than PasswordError, as it leaves
\* check_passwords: nothing catches it and nothing is added to it
Uncaught(type) == [type |-> type, args |-> <<>>]

----------------------------------------------------------------------------
(* What print() is given, one record per call *)

Line(kind, n, pw, t, total, verdict) ==
    [kind |-> kind, count |-> n, password |-> pw, elapsed |-> t,
     total |-> total, verdict |-> verdict]

NoTotal == [dtype |-> "none", bytes |-> <<>>]

----------------------------------------------------------------------------
(* The inputs: candidate lists, documents, log frequencies *)

SpecPool ==
    { Collection("list", <<"0", "1", "2">>),
      Collection("list", <<"a">>),
      Collection("tuple", <<"0", "1">>),
      Collection("list", <<>>),
      Single("ab"),
      Collection("list", <<"">>),
      Collection("ndarray", <<"a", "a">>),
      Collection("set", <<"y", "x">>) }

RECURSIVE ListsOf(_)
ListsOf(n) ==
    IF n = 0
    THEN { <<>> }
    ELSE LET shorter == ListsOf(n - 1)
         IN  shorter \cup { Append(l, c) : l \in { x \in shorter : Len(x) = n - 1 },
                                           c \in SpecPool }

CandidateLists == ListsOf(MaxPositions)

RECURSIVE AllJoins(_)
\* every password a list of pools can produce
AllJoins(pools) ==
    IF pools = <<>>
    THEN { "" }
    ELSE { pools[1][i] \o rest : i \in 1..Len(pools[1]), rest \in AllJoins(Tail(pools)) }

Normalized(r) == [i \in 1..Len(r) |-> as_list(r[i])]

\* the documents tried: no candidate opens it, or one of the candidates does
Documents(r) == { {} } \cup { {p} : p \in AllJoins(Normalized(r)) }

\* time.perf_counter(), in ticks of the clock since the search was set up.
\* Opening the document takes at least one tick; the statements between two
\* reads of the clock may take less than a tick.  Readings of MaxClock ticks
\* and more are not told apart.
CallTicks == {1}

ReadTicks == {0, 1}

Later(now, t) == IF now + t > MaxClock THEN MaxClock ELSE now + t

----------------------------------------------------------------------------
(* check_passwords, lines 45-86 *)

Init ==
    /\ raw \in CandidateLists
    /\ accept \in Documents(raw)
    /\ log_freq \in 1..MaxLogFreq
    /\ pc = "init"
    /\ combination = <<>>
    /\ num_passwords = NoTotal
    /\ passwords = product(<<>>)
    /\ success = PyFalse
    /\ count = 0
    /\ start = 0
    /\ clock = 0
    /\ password = ""
    /\ out = <<>>
    /\ exc = NoException
    /\ calls = <<>>
    /\ cancelRequested = FALSE
    /\ number = <<0>>
    /\ decimals = 0
    /\ rendered = ""

\* lines 56-64
Setup ==
    /\ pc = "init"
    /\ LET c == [i \in 1..Len(raw) |-> as_list(raw[i])]
       IN  /\ combination' = c
           /\ out' = Append(out, Line("trying", 0, "", 0, NoTotal, ""))
           /\ num_passwords' = np_product([i \in 1..Len(c) |-> Len(c[i])])
           /\ passwords' = product(c)
    /\ success' = PyFalse
    /\ count' = 0
    /\ start' = clock
    /\ pc' = "loop"
    /\ UNCHANGED <<number, decimals, rendered>>
    /\ UNCHANGED <<raw, accept, log_freq, clock, password, exc, calls, cancelRequested>>

\* the loop without its break: the search goes on after a match
AfterBreak_Missing == "loop"

\* line 71: `break` leaves the loop for the statements after it
AfterBreak == "summary"

\* the test made on the counter as it was before line 73 incremented it
ShouldLog_BeforeIncrement(n, freq) == (n - 1) % freq = 0

\* line 74
ShouldLog(n, freq) == n % freq = 0

\* lines 66-71: the next candidate opens the document
TryMatch ==
    /\ pc = "loop"
    /\ LET it == product_next(passwords)
           pw == join(product_value(it))
       IN  /\ it.phase = "running"
           /\ Joinable(product_value(it))
           /\ check_password(accept, pw)
           /\ passwords' = it
           /\ password' = pw
           /\ calls' = Append(calls, [password |-> pw, indices |-> it.indices, result |-> "true"])
           /\ success' = PyStr(pw)
           /\ out' = Append(out, Line("success", count, pw, 0, NoTotal, ""))
    /\ \E t \in CallTicks : clock' = Later(clock, t)
    /\ pc' = AfterBreak
    /\ UNCHANGED <<number, decimals, rendered>>
    /\ UNCHANGED <<raw, accept, log_freq, combination, num_passwords, count, start,
                   exc, cancelRequested>>

\* lines 66-68, 73-80: the next candidate does not open the document
TryFail ==
    /\ pc = "loop"
    /\ LET it == product_next(passwords)
           pw == join(product_value(it))
       IN  /\ it.phase = "running"
           /\ Joinable(product_value(it))
           /\ ~check_password(accept, pw)
           /\ passwords' = it
           /\ password' = pw
           /\ calls' = Append(calls, [password |-> pw, indices |-> it.indices, result |-> "false"])
           /\ count' = count + 1
           /\ \E t \in CallTicks :
                IF ShouldLog(count + 1, log_freq)
                THEN \E r \in ReadTicks :
                        LET now == Later(clock, t + r)
                            elapsed_time == now - start
                        IN  /\ clock' = now
                            /\ IF elapsed_time = 0
                               THEN \* line 77 divides by elapsed_time
                                    /\ exc' = Uncaught("ZeroDivisionError")
                                    /\ out' = out
                                    /\ pc' = "raised"
                               ELSE /\ exc' = exc
                                    /\ out' = Append(out, Line("progress", count + 1, pw,
                                                               elapsed_time, num_passwords, ""))
                                    /\ pc' = pc
                ELSE /\ clock' = Later(clock, t)
                     /\ out' = out
                     /\ exc' = exc
                     /\ pc' = pc
    /\ UNCHANGED <<number, decimals, rendered>>
    /\ UNCHANGED <<raw, accept, log_freq, combination, num_passwords, success,
                   start, cancelRequested>>

\* lines 66-68, 39-43: pikepdf.open raises something other than PasswordError
TryRaise ==
    /\ pc = "loop"
    /\ LET it == product_next(passwords)
           pw == join(product_value(it))
       IN  /\ it.phase = "running"
           /\ Joinable(product_value(it))
           /\ passwords' = it
           /\ password' = pw
           /\ calls' = Append(calls, [password |-> pw, indices |-> it.indices, result |-> "raise"])
    /\ exc' = Uncaught("PdfError")
    /\ \E t \in CallTicks : clock' = Later(clock, t)
    /\ pc' = "raised"
    /\ UNCHANGED <<number, decimals, rendered>>
    /\ UNCHANGED <<raw, accept, log_freq, combination, num_passwords, success, count,
                   start, out, cancelRequested>>

\* lines 66-67: the next tuple holds an item that is not a str and
\* ''.join raises TypeError, before check_password is called
JoinRaise ==
    /\ pc = "loop"
    /\ LET it == product_next(passwords)
       IN  /\ it.phase = "running"
           /\ ~Joinable(product_value(it))
           /\ passwords' = it
    /\ exc' = Uncaught("TypeError")
    /\ pc' = "raised"
    /\ UNCHANGED <<number, decimals, rendered>>
    /\ UNCHANGED <<raw, accept, log_freq, combination, num_passwords, success, count,
                   start, clock, password, out, calls, cancelRequested>>

\* line 66: the iterator is exhausted
LoopEnd ==
    /\ pc = "loop"
    /\ product_next(passwords).phase = "stopped"
    /\ passwords' = product_next(passwords)
    /\ pc' = "summary"
    /\ UNCHANGED <<number, decimals, rendered>>
    /\ UNCHANGED <<raw, accept, log_freq, combination, num_passwords, success, count,
                   start, clock, password, out, exc, calls, cancelRequested>>

\* lines 82-86
Summary ==
    /\ pc = "summary"
    /\ \E r \in ReadTicks :
        LET end == Later(clock, r)
            total_time == end - start
        IN  /\ clock' = end
            /\ IF total_time = 0
               THEN /\ exc' = Uncaught("ZeroDivisionError")
                    /\ out' = out
                    /\ pc' = "raised"
               ELSE /\ exc' = exc
                    /\ out' = Append(out,
                                IF Truthy(success)
                                THEN Line("summary", count, success.s, total_time,
                                          NoTotal, "Correct password")
                                ELSE Line("summary", count, "", total_time,
                                          num_passwords, "All passwords failed"))
                    /\ pc' = "done"
    /\ UNCHANGED <<number, decimals, rendered>>
    /\ UNCHANGED <<raw, accept, log_freq, combination, num_passwords, passwords, success,
                   count, start, password, calls, cancelRequested>>

\* the caller asks for the search to stop; check_passwords takes no such signal
RequestCancel ==
    /\ pc = "loop"
    /\ ~cancelRequested
    /\ cancelRequested' = TRUE
    /\ UNCHANGED <<number, decimals, rendered>>
    /\ UNCHANGED <<raw, accept, log_freq, pc, combination, num_passwords, passwords,
                   success, count, start, clock, password, out, exc, calls>>

Next ==
    \/ Setup
    \/ TryMatch
    \/ TryFail
    \/ TryRaise
    \/ LoopEnd
    \/ Summary
    \/ RequestCancel

Spec == Init /\ [][Next]_vars

----------------------------------------------------------------------------
(* The enumeration the claims speak of, defined apart from the iterator:   *)
(* the n-th combination is n - 1 written in the mixed radix of the pool    *)
(* lengths, most significant position first.                               *)

RECURSIVE SpaceSize(_)
SpaceSize(pools) ==
    IF pools = <<>> THEN 1 ELSE Len(pools[1]) * SpaceSize(Tail(pools))

NthIndices(pools, n) ==
    [i \in 1..Len(pools) |->
        (((n - 1) \div SpaceSize(SubSeq(pools, i + 1, Len(pools)))) % Len(pools[i])) + 1]

RECURSIVE Concatenation(_, _)
\* the symbols chosen by the indices ind at positions 1..k, written one after another
Concatenation(pools, ind) ==
    IF Len(ind) = 0
    THEN ""
    ELSE Concatenation(pools, SubSeq(ind, 1, Len(ind) - 1))
            \o pools[Len(ind)][ind[Len(ind)]]

NthCandidate(pools, n) == Concatenation(pools, NthIndices(pools, n))

\* the positions in the enumeration of the candidates that open the document
Matching == { n \in 1..SpaceSize(combination) : NthCandidate(combination, n) \in accept }

FirstMatch == CHOOSE k \in Matching : \A n \in Matching : k <= n

Results == [i \in 1..Len(calls) |-> calls[i].result]

NeverMatched == \A i \in 1..Len(calls) : calls[i].result = "false"

Lines(kind) == SelectSeq(out, LAMBDA l : l.kind = kind)

Ended == pc \in {"summary", "done"}

----------------------------------------------------------------------------
(* C1: when the first candidate of the enumeration that opens the document *)
(* is the k-th, the search calls the oracle exactly k times, on the first   *)
(* k candidates in order, the k-th call is the one that succeeds, the       *)
(* search leaves the loop with success holding that k-th password and       *)
(* announces it, and at no time has it made more than k calls.              *)
C1_FoundAtKth ==
    (pc # "init" /\ Matching # {} /\ "raise" \notin {calls[i].result : i \in 1..Len(calls)}) =>
        LET k == FirstMatch
        IN  /\ Len(calls) <= k
            /\ \A j \in 1..Len(calls) :
                  /\ calls[j].password = NthCandidate(combination, j)
                  /\ calls[j].result = IF j = k THEN "true" ELSE "false"
            /\ Len(calls) = k <=> Ended
            /\ Ended =>
                  /\ success = PyStr(NthCandidate(combination, k))
                  /\ Len(Lines("success")) = 1
                  /\ Lines("success")[1].password = NthCandidate(combination, k)

C1_Witness ==
    /\ pc = "done"
    /\ Len(calls) = 2
    /\ calls[2].result = "true"
    /\ SpaceSize(combination) > 2

----------------------------------------------------------------------------
(* C2: with a document no candidate opens, a finished search has called    *)
(* the oracle once per combination of the Cartesian product: the n-th call  *)
(* is on the combination whose indices are n - 1 in mixed radix (first      *)
(* position most significant, so slowest), its password is the symbols at   *)
(* those indices written one after another in position order, and there     *)
(* are exactly as many calls as combinations.                               *)
C2_ExhaustiveLexOrder ==
    (Ended /\ NeverMatched) =>
        /\ Len(calls) = SpaceSize(combination)
        /\ \A n \in 1..Len(calls) :
              /\ calls[n].indices = NthIndices(combination, n)
              /\ calls[n].password = Concatenation(combination, calls[n].indices)
        /\ \A m, n \in 1..Len(calls) : m # n => calls[m].indices # calls[n].indices

C2_Witness ==
    /\ pc = "done"
    /\ NeverMatched
    /\ Len(combination) = 2
    /\ Len(combination[1]) = 3
    /\ Len(combination[2]) = 2
    /\ Len(calls) = 6
    /\ calls[2].indices = <<1, 2>>
    /\ calls[3].indices = <<2, 1>>

----------------------------------------------------------------------------
(* C3: a search that has finished has printed exactly one final summary;    *)
(* the summary names a password p as the correct one if and only if some    *)
(* oracle call returned true for p, and it says that all passwords failed   *)
(* only if no oracle call returned true.                                    *)
C3_OutcomeMatchesOracle ==
    pc = "done" =>
        LET fin == Lines("summary")
            opened == { calls[i].password : i \in { j \in 1..Len(calls) : calls[j].result = "true" } }
        IN  /\ Len(fin) = 1
            /\ \A p \in opened : fin[1].verdict = "Correct password" /\ fin[1].password = p
            /\ fin[1].verdict = "Correct password" => fin[1].password \in opened
            /\ fin[1].verdict = "All passwords failed" => opened = {}

----------------------------------------------------------------------------
(* C4: a search that has finished without any oracle call returning true    *)
(* reports that all passwords failed, and the attempts it reports equal the *)
(* number of oracle calls made, the size of the Cartesian product, and the  *)
(* num_passwords it computed.                                               *)
C4_ExhaustedCountsSpace ==
    (pc = "done" /\ NeverMatched) =>
        LET fin == Lines("summary")[1]
        IN  /\ fin.verdict = "All passwords failed"
            /\ fin.count = Len(calls)
            /\ fin.count = SpaceSize(combination)
            /\ fin.total.bytes = Int64(fin.count)

C4_Witness ==
    /\ pc = "done"
    /\ NeverMatched
    /\ combination = << <<"0", "1", "2">>, <<"0", "1", "2">> >>
    /\ Lines("summary")[1].count = 9

----------------------------------------------------------------------------
(* C5: a search that has finished after the oracle returned true on its     *)
(* k-th call reports k attempts in its final summary, the number of oracle  *)
(* calls made.                                                              *)
C5_FoundReportsKAttempts ==
    (pc = "done" /\ Len(calls) > 0 /\ calls[Len(calls)].result = "true") =>
        Lines("summary")[1].count = Len(calls)

----------------------------------------------------------------------------
(* C6: once set up with a candidate list one of whose alphabets is empty,   *)
(* the search has a num_passwords of 0, never calls the oracle, keeps its   *)
(* attempt counter at 0, raises no exception, and when it has finished it   *)
(* has reported that all 0 passwords failed after 0 attempts.               *)
C6_EmptyAlphabetExhausted ==
    (pc # "init" /\ \E i \in 1..Len(combination) : combination[i] = <<>>) =>
        /\ num_passwords.bytes = Int64(0)
        /\ calls = <<>>
        /\ count = 0
        /\ exc = NoException
        /\ pc # "raised"
        /\ pc = "done" =>
              /\ Lines("summary")[1].verdict = "All passwords failed"
              /\ Lines("summary")[1].count = 0

----------------------------------------------------------------------------
(* C8: at every moment the progress lines printed so far are one per        *)
(* log_freq failed attempts: their number is the number of oracle calls     *)
(* that returned false, divided by log_freq and rounded down; the j-th      *)
(* carries the count j * log_freq and the password of the call that made    *)
(* the counter reach it; the counter is the number of failed calls; and     *)
(* the final summary, printed at most once, comes after all of them.        *)
C8_ProgressEveryLogFreq ==
    LET prog == Lines("progress")
        failed == { i \in 1..Len(calls) : calls[i].result = "false" }
    IN  /\ count = Cardinality(failed)
        /\ Len(prog) = Cardinality(failed) \div log_freq
        /\ \A j \in 1..Len(prog) :
              /\ prog[j].count = j * log_freq
              /\ j * log_freq \in failed
              /\ prog[j].password = calls[j * log_freq].password
        /\ Len(Lines("summary")) <= 1
        /\ Len(Lines("summary")) = 1 => (pc = "done" /\ out[Len(out)].kind = "summary")

C8_Witness ==
    /\ pc = "done"
    /\ log_freq = 2
    /\ count = 5
    /\ Len(Lines("progress")) = 2
    /\ calls[6].result = "true"

----------------------------------------------------------------------------
(* C9: once the oracle has raised instead of answering, the search has      *)
(* stopped at that call (it is the last one), the call is not counted, and  *)
(* the exception that leaves the search is an OracleFailure carrying the    *)
(* attempts made so far.                                                    *)
C9_OracleFailureCarriesAttempts ==
    (\E i \in 1..Len(calls) : calls[i].result = "raise") =>
        /\ pc = "raised"
        /\ calls[Len(calls)].result = "raise"
        /\ count = Len(calls) - 1
        /\ exc.type = "OracleFailure"
        /\ exc.args = <<count>>

----------------------------------------------------------------------------
(* C10: once the caller has asked for cancellation, the search makes no     *)
(* further oracle call and counts no further attempt: its next step ends    *)
(* it in the state Cancelled.                                               *)
C10_CancelStopsSearch ==
    [][cancelRequested => (calls' = calls /\ count' = count /\ pc' = "cancelled")]_vars

----------------------------------------------------------------------------
(* The size computation alone, on candidate lists as long as real          *)
(* passwords: Setup applied to lists of the module's stock alphabets.       *)

StockAlphabets == {ALPHABET_UPPERCASE, ALPHABET_LOWERCASE, NUMBER}

LongLists ==
    { [i \in 1..n |-> Collection("tuple", a)] :
          n \in 0..MaxProdPositions, a \in StockAlphabets }
    \cup
    { [i \in 1..n |-> IF i % 2 = 1
                      THEN Collection("tuple", ALPHABET_LOWERCASE)
                      ELSE Collection("list", NUMBER)] :
          n \in 0..MaxProdPositions }

InitProd ==
    /\ raw \in LongLists
    /\ accept = {}
    /\ log_freq \in 1..MaxLogFreq
    /\ pc = "init"
    /\ combination = <<>>
    /\ num_passwords = NoTotal
    /\ passwords = product(<<>>)
    /\ success = PyFalse
    /\ count = 0
    /\ start = 0
    /\ clock = 0
    /\ password = ""
    /\ out = <<>>
    /\ exc = NoException
    /\ calls = <<>>
    /\ cancelRequested = FALSE
    /\ number = <<0>>
    /\ decimals = 0
    /\ rendered = ""

NextProd == Setup

SpecProd == InitProd /\ [][NextProd]_vars

(* Natural numbers of any size, as their bytes, least significant first,   *)
(* with no zero byte at the top.                                            *)

RECURSIVE Trim(_)
Trim(bytes) ==
    IF bytes # <<>> /\ bytes[Len(bytes)] = 0
    THEN Trim(SubSeq(bytes, 1, Len(bytes) - 1))
    ELSE bytes

RECURSIVE BigMulCarry(_, _, _)
BigMulCarry(bytes, m, carry) ==
    IF bytes = <<>>
    THEN IF carry = 0 THEN <<>> ELSE <<carry % 256>> \o BigMulCarry(<<>>, m, carry \div 256)
    ELSE LET t == bytes[1] * m + carry
         IN  <<t % 256>> \o BigMulCarry(Tail(bytes), m, t \div 256)

BigMul(a, m) == Trim(BigMulCarry(a, m, 0))

RECURSIVE ExactProduct(_)
\* the product of the lengths of the pools, in the integers
ExactProduct(pools) ==
    IF pools = <<>>
    THEN <<1>>
    ELSE BigMul(ExactProduct(Tail(pools)), Len(pools[1]))

\* the int64 with these bytes is the natural number big
Int64Is(bytes, big) == bytes[Int64Bytes] < 128 /\ Trim(bytes) = big

----------------------------------------------------------------------------
(* C7: the num_passwords the search computes is the product, in the         *)
(* integers, of the lengths of the normalized alphabets.                    *)
C7_SizeIsExactProduct ==
    pc # "init" => Int64Is(num_passwords.bytes, ExactProduct(combination))

----------------------------------------------------------------------------
(* The search on candidate lists that hold an object that is not a str:    *)
(* an alphabet with such an item, or such an object as a single symbol.     *)

MalformedPool ==
    { Collection("list", <<"a", "int(1)">>),
      Collection("tuple", <<"int(1)", "a">>),
      [type |-> "int", items |-> <<"int(1)">>] }

Malformed(r) == \E i \in 1..Len(r) : r[i] \in MalformedPool

RECURSIVE MixedListsOf(_)
MixedListsOf(n) ==
    IF n = 0
    THEN { <<>> }
    ELSE LET shorter == MixedListsOf(n - 1)
         IN  shorter \cup { Append(l, c) : l \in { x \in shorter : Len(x) = n - 1 },
                                           c \in SpecPool \cup MalformedPool }

MalformedLists == { r \in MixedListsOf(MaxPositions) : Malformed(r) }

\* the str items of a pool, in order
StrItems(pool) == SelectSeq(pool, LAMBDA x : x \notin NonStrObjects)

\* the documents tried: no candidate opens it, or a candidate made of str items does
DocumentsOfStr(r) ==
    { {} } \cup { {p} : p \in AllJoins([i \in 1..Len(r) |-> StrItems(as_list(r[i]))]) }

InitMalformed ==
    /\ raw \in MalformedLists
    /\ accept \in DocumentsOfStr(raw)
    /\ log_freq \in 1..MaxLogFreq
    /\ pc = "init"
    /\ combination = <<>>
    /\ num_passwords = NoTotal
    /\ passwords = product(<<>>)
    /\ success = PyFalse
    /\ count = 0
    /\ start = 0
    /\ clock = 0
    /\ password = ""
    /\ out = <<>>
    /\ exc = NoException
    /\ calls = <<>>
    /\ cancelRequested = FALSE
    /\ number = <<0>>
    /\ decimals = 0
    /\ rendered = ""

NextMalformed ==
    \/ Setup
    \/ TryMatch
    \/ TryFail
    \/ TryRaise
    \/ JoinRaise
    \/ LoopEnd
    \/ Summary
    \/ RequestCancel

SpecMalformed == InitMalformed /\ [][NextMalformed]_vars

----------------------------------------------------------------------------
(* C11: a search given a candidate list with a malformed alphabet is        *)
(* rejected at set-up: past its initial state it has stopped with the       *)
(* error InvalidAlphabet, and it has called the oracle on no candidate and  *)
(* reported no progress.                                                    *)
C11_MalformedRejectedAtInit ==
    (pc # "init" /\ Malformed(raw)) =>
        /\ pc = "raised"
        /\ exc.type = "InvalidAlphabet"
        /\ calls = <<>>
        /\ Lines("progress") = <<>>

----------------------------------------------------------------------------
(* C12: a search never stops with a division by zero: when the clock has    *)
(* not advanced since the search started, a search that has left its loop   *)
(* and stopped has still printed its final summary and ended normally.      *)
C12_ZeroElapsedTolerated ==
    /\ exc.type # "ZeroDivisionError"
    /\ (pc \in {"done", "raised"} /\ clock = start) =>
          (pc = "done" /\ Len(Lines("summary")) = 1)

----------------------------------------------------------------------------
(* What a search does as a function of its arguments and the document      *)
(* alone: the loop of lines 66-73 evaluated without any clock.              *)

RECURSIVE LoopResult(_, _, _, _)
LoopResult(doc, it, tried, n) ==
    LET nx == product_next(it)
    IN  IF nx.phase # "running"
        THEN [passwords |-> tried, count |-> n, success |-> PyFalse]
        ELSE LET pw == join(product_value(nx))
             IN  IF check_password(doc, pw)
                 THEN [passwords |-> Append(tried, pw), count |-> n, success |-> PyStr(pw)]
                 ELSE LoopResult(doc, nx, Append(tried, pw), n + 1)

Determined(r, doc) ==
    LET res == LoopResult(doc, product(Normalized(r)), <<>>, 0)
    IN  [passwords |-> res.passwords,
         count |-> res.count,
         outcome |-> IF Truthy(res.success)
                     THEN <<"Correct password", res.success.s>>
                     ELSE <<"All passwords failed", "">>]

\* what a stopped search has shown: the passwords it gave the oracle, its
\* attempt count, and its final summary or the exception it ended with
Observed ==
    [passwords |-> [i \in 1..Len(calls) |-> calls[i].password],
     count |-> count,
     outcome |-> IF pc = "done"
                 THEN <<out[Len(out)].verdict, out[Len(out)].password>>
                 ELSE <<exc.type, "">>]

OracleAnswered == \A i \in 1..Len(calls) : calls[i].result # "raise"

----------------------------------------------------------------------------
(* C13: what a stopped search has passed to the oracle, its attempt count   *)
(* and its outcome are determined by the candidate list and the document,   *)
(* whatever the clock did; so two runs on the same inputs agree on all      *)
(* three.                                                                   *)
C13_SameInputsSameOutcome ==
    (pc \in {"done", "raised"} /\ OracleAnswered) => Observed = Determined(raw, accept)

----------------------------------------------------------------------------
(* The candidate list as the caller wrote it: the number of items of each  *)
(* alphabet specification, repeated items counted, and the ways of          *)
(* choosing one item position in each.                                      *)

RECURSIVE RawSize(_)
RawSize(r) == IF r = <<>> THEN 1 ELSE Len(r[1].items) * RawSize(Tail(r))

LongestAlphabet(r) ==
    IF r = <<>>
    THEN 0
    ELSE CHOOSE m \in { Len(r[i].items) : i \in 1..Len(r) } :
            \A i \in 1..Len(r) : Len(r[i].items) <= m

RawChoices(r) ==
    { v \in [1..Len(r) -> 1..LongestAlphabet(r)] :
          \A i \in 1..Len(r) : v[i] <= Len(r[i].items) }

----------------------------------------------------------------------------
(* C14: after set-up every normalized alphabet is the items of its          *)
(* specification in their order, repeated items kept (a single symbol       *)
(* gives the one-item sequence holding it); num_passwords is the product    *)
(* of the item counts, repeats counted; and a search that no candidate      *)
(* ends early has tried one candidate for every choice of item positions,   *)
(* so each repeat of a symbol has its own attempt.                          *)
C14_NormalizationKeepsDuplicates ==
    pc # "init" =>
        /\ Len(combination) = Len(raw)
        /\ \A i \in 1..Len(raw) :
              /\ Len(combination[i]) = Len(raw[i].items)
              /\ \A j \in 1..Len(raw[i].items) : combination[i][j] = raw[i].items[j]
        /\ num_passwords.bytes = Int64(RawSize(raw))
        /\ (Ended /\ NeverMatched) =>
              /\ Len(calls) = RawSize(raw)
              /\ \A v \in RawChoices(raw) : \E n \in 1..Len(calls) : calls[n].indices = v

C14_Witness ==
    /\ pc = "done"
    /\ NeverMatched
    /\ raw = << Collection("ndarray", <<"a", "a">>), Collection("tuple", <<"0", "1">>) >>
    /\ Len(calls) = 4
    /\ calls[1].password = "a0"
    /\ calls[3].password = "a0"
    /\ calls[1].indices # calls[3].indices

----------------------------------------------------------------------------
(* C18: an alphabet specification that is not a list, tuple, set or array   *)
(* is one symbol, however many characters it has: its position has the      *)
(* single choice of that whole string, num_passwords is the product of the  *)
(* sizes of the other positions, and every password tried is what the       *)
(* positions before it give, then the whole string, then what the           *)
(* positions after it give.                                                 *)
C18_NonCollectionIsOneSymbol ==
    pc # "init" =>
        \A i \in 1..Len(raw) :
            raw[i].type \notin CollectionTypes =>
                LET before == SubSeq(combination, 1, i - 1)
                    after == SubSeq(combination, i + 1, Len(combination))
                IN  /\ combination[i] = <<raw[i].items[1]>>
                    /\ num_passwords.bytes = Int64(SpaceSize(before) * SpaceSize(after))
                    /\ \A n \in 1..Len(calls) :
                          /\ calls[n].indices[i] = 1
                          /\ calls[n].password =
                                Concatenation(before, SubSeq(calls[n].indices, 1, i - 1))
                                \o raw[i].items[1]
                                \o Concatenation(after, SubSeq(calls[n].indices, i + 1, Len(combination)))

C18_Witness ==
    /\ pc = "done"
    /\ raw = << Single("ab"), Collection("list", <<"0", "1", "2">>) >>
    /\ Len(calls) = 3
    /\ calls[2].password = "ab1"
    /\ Len(calls[2].password) > Len(raw)

----------------------------------------------------------------------------
FailedCalls(c) == Cardinality({ i \in 1..Len(c) : c[i].result = "false" })

(* C16: in every step of a search the attempt counter stays the number of   *)
(* oracle calls that have returned false: it grows by 1 exactly when a      *)
(* call returns false and otherwise keeps its value, it never exceeds the   *)
(* size of the Cartesian product, the calls made so far stay made, and no   *)
(* combination of indices is given to the oracle twice.                     *)
C16_CounterTracksFailedCalls ==
    [][ /\ count' = FailedCalls(calls')
        /\ count' - count = FailedCalls(calls') - FailedCalls(calls)
        /\ count' - count \in {0, 1}
        /\ count' <= SpaceSize(combination')
        /\ Len(calls') >= Len(calls)
        /\ SubSeq(calls', 1, Len(calls)) = calls
        /\ \A m, n \in 1..Len(calls') : m # n => calls'[m].indices # calls'[n].indices
      ]_vars

C16_Witness ==
    /\ pc = "loop"
    /\ count = 5
    /\ Len(calls) = 5
    /\ SpaceSize(combination) = 6
    /\ accept # {}

----------------------------------------------------------------------------
Terminal == pc = "done"

(* C17: a search whose oracle answers every call stops in a terminal state, *)
(* found or exhausted, and nowhere else: it is never ended by an exception, *)
(* it makes at most as many oracle calls as the Cartesian product has       *)
(* tuples, the terminal state carries exactly one summary and that is the   *)
(* last thing printed, and from a terminal state no step makes a call or    *)
(* prints a line.                                                           *)
C17_SearchTerminates ==
    [][ /\ OracleAnswered' => pc' # "raised"
        /\ OracleAnswered' => Len(calls') <= SpaceSize(combination')
        /\ (Terminal' /\ OracleAnswered') =>
              /\ Len(Lines("summary")') = 1
              /\ out'[Len(out')].kind = "summary"
        /\ Terminal => (calls' = calls /\ out' = out /\ pc' = pc)
      ]_vars

----------------------------------------------------------------------------
(* human_readable_numbers, lines 23-32.  The argument is a non-negative     *)
(* integer, written as its decimal digits, most significant first, so that  *)
(* numbers beyond 10^18 can be drawn.  The floating-point steps (the double *)
(* math.log10 returns, the double the true division returns, and the        *)
(* rounding of that double by the 'f' format) are computed as the code      *)
(* computes them for integers of at most 15 significant digits followed by  *)
(* zeros and for integers written with nines only.                          *)

MaxSignificant == 3
MaxZeros == 16
MaxDecimals == 2

\* the 53 bits of the significand of a Python float
MantissaBits == 53

Min(a, b) == IF a < b THEN a ELSE b
Max(a, b) == IF a > b THEN a ELSE b

RECURSIVE Pow(_, _)
Pow(b, e) == IF e = 0 THEN 1 ELSE b * Pow(b, e - 1)

DigitChar == <<"0", "1", "2", "3", "4", "5", "6", "7", "8", "9">>

\* str(n), line 29
RECURSIVE str(_)
str(ds) == IF ds = <<>> THEN "" ELSE DigitChar[Head(ds) + 1] \o str(Tail(ds))

\* round(n), line 27: an int is returned as it is
round(ds) == ds

AllZero(ds) == \A i \in 1..Len(ds) : ds[i] = 0
AllNines(ds) == \A i \in 1..Len(ds) : ds[i] = 9
Pad(ds, k) == ds \o [i \in 1..k |-> 0]

\* the integer part of the double math.log10(n), n >= 1000, line 31:
\* log10(10^k - 1) is nearer to the double k than to the double below k
\* once k >= 15, and then math.log10 returns k
FloorLog10(ds) ==
    IF AllNines(ds) /\ Len(ds) >= 15 THEN Len(ds) ELSE Len(ds) - 1

names == <<"", "thousand", "million", "billion", "trillion", "quadrillion">>

\* line 31
idx(ds) == Max(0, Min(Len(names) - 1, FloorLog10(ds) \div 3))

RECURSIVE Value(_)
Value(ds) ==
    IF ds = <<>> THEN 0 ELSE 10 * Value(SubSeq(ds, 1, Len(ds) - 1)) + ds[Len(ds)]

RECURSIVE Increment(_)
Increment(ds) ==
    IF ds = <<>> THEN <<1>>
    ELSE IF ds[Len(ds)] < 9 THEN [ds EXCEPT ![Len(ds)] = @ + 1]
    ELSE Append(Increment(SubSeq(ds, 1, Len(ds) - 1)), 0)

\* the largest p with 2^p * b <= a, for a >= b
RECURSIVE Log2Floor(_, _)
Log2Floor(a, b) == IF a < 2 * b THEN 0 ELSE 1 + Log2Floor(a, 2 * b)

\* (r * 2^k) mod b
RECURSIVE Doubled(_, _, _)
Doubled(r, b, k) == IF k = 0 THEN r ELSE Doubled((2 * r) % b, b, k - 1)

\* The quotient of line 32 lies exactly halfway between `kept` and
\* `kept` + 1 units of the last decimal: a / b with a = 10 * kept + 5 and
\* b = 10^(decimals + 1), at least 1.  The division returns the double
\* nearest to a / b, m / 2^e with 2^52 <= m < 2^53, and the format rounds
\* that double: up when it is above a / b, down when below, and to the even
\* digit when a / b is a double itself.
TieRoundsUp(kept, d) ==
    LET a == 10 * Value(kept) + 5
        b == Pow(10, d + 1)
        e == MantissaBits - 1 - Log2Floor(a, b)
        r == Doubled(a % b, b, e)
        odd == 2 * Doubled(a % b, b, e - 1) >= b
    IN  IF r = 0 THEN kept # <<>> /\ kept[Len(kept)] % 2 = 1
        ELSE IF 2 * r = b THEN odd
        ELSE 2 * r > b

\* the digits of the fixed-point figure: whole part, then d decimals
Fixed(digits, d) ==
    LET whole == SubSeq(digits, 1, Len(digits) - d)
        frac == SubSeq(digits, Len(digits) - d + 1, Len(digits))
    IN  (IF whole = <<>> THEN "0" ELSE str(whole))
            \o (IF d = 0 THEN "" ELSE "." \o str(frac))

\* f'{n / 10**s:.{d}f}', line 32, for n with at least s digits
format_f(ds, s, d) ==
    LET whole == SubSeq(ds, 1, Len(ds) - s)
        frac == Pad(SubSeq(ds, Len(ds) - s + 1, Len(ds)), d)
        kept == whole \o SubSeq(frac, 1, d)
        rest == SubSeq(frac, d + 1, Len(frac))
        up == IF AllZero(rest) THEN FALSE
              ELSE IF Head(rest) # 5 \/ ~AllZero(Tail(rest)) THEN Head(rest) >= 5
              ELSE TieRoundsUp(kept, d)
    IN  Fixed(IF up THEN Increment(kept) ELSE kept, d)

\* lines 23-32
human_readable_numbers(n, decs) ==
    LET m == round(n)
    IN  IF Len(m) <= 3
        THEN str(m)
        ELSE format_f(m, 3 * idx(m), decs) \o " " \o names[idx(m) + 1]

Leads ==
    { l \in UNION { [1..k -> 0..9] : k \in 1..MaxSignificant } : l[1] # 0 }

Numbers ==
    {<<0>>}
        \cup { Pad(l, z) : l \in Leads, z \in 0..MaxZeros }
        \cup { [i \in 1..k |-> 9] : k \in 1..(MaxSignificant + MaxZeros) }

InitFmt ==
    /\ number \in Numbers
    /\ decimals \in 0..MaxDecimals
    /\ rendered = ""
    /\ pc = "format"
    /\ raw = <<>>
    /\ accept = {}
    /\ log_freq = 1
    /\ combination = <<>>
    /\ num_passwords = NoTotal
    /\ passwords = product(<<>>)
    /\ success = PyFalse
    /\ count = 0
    /\ start = 0
    /\ clock = 0
    /\ password = ""
    /\ out = <<>>
    /\ exc = NoException
    /\ calls = <<>>
    /\ cancelRequested = FALSE

Format ==
    /\ pc = "format"
    /\ rendered' = human_readable_numbers(number, decimals)
    /\ pc' = "formatted"
    /\ UNCHANGED <<number, decimals>>
    /\ UNCHANGED <<raw, accept, log_freq, combination, num_passwords, passwords,
                   success, count, start, clock, password, out, exc, calls,
                   cancelRequested>>

NextFmt == Format

SpecFmt == InitFmt /\ [][NextFmt]_vars

----------------------------------------------------------------------------
\* floor(log10(n) / 3) of the integer n >= 1000 itself, at most 5
MagnitudeOf(ds) == Min(5, (Len(ds) - 1) \div 3)

\* n / 10^s written with d decimals: the figure just below or at the
\* quotient, and the one just above when the quotient has more decimals
Figures(ds, s, d) ==
    LET frac == Pad(SubSeq(ds, Len(ds) - s + 1, Len(ds)), d)
        kept == SubSeq(ds, 1, Len(ds) - s) \o SubSeq(frac, 1, d)
        rest == SubSeq(frac, d + 1, Len(frac))
    IN  IF AllZero(rest)
        THEN { Fixed(kept, d) }
        ELSE { Fixed(kept, d), Fixed(Increment(kept), d) }

(* C15: human_readable_numbers returns the plain digits of a non-negative   *)
(* integer below 1000, and for n >= 1000 the quotient n / 10^(3i) written   *)
(* with the requested decimals, a space and the i-th magnitude name, where  *)
(* i is floor(log10(n) / 3), at most 5 (quadrillion); 1 gives "1", 1500     *)
(* with 1 decimal "1.5 thousand", 2300000 with no decimals "2 million".     *)
C15_ScaledToMagnitudeName ==
    pc = "formatted" =>
        LET i == MagnitudeOf(number)
        IN  /\ Len(number) <= 3 => rendered = str(number)
            /\ Len(number) > 3 =>
                  \E figure \in Figures(number, 3 * i, decimals) :
                      rendered = figure \o " " \o names[i + 1]
            /\ number = <<1>> => rendered = "1"
            /\ (number = <<1, 5, 0, 0>> /\ decimals = 1) => rendered = "1.5 thousand"
            /\ (number = <<2, 3, 0, 0, 0, 0, 0>> /\ decimals = 0) => rendered = "2 million"

====
